---- MODULE Spec2Model ----
(***************************************************************************)
(* The question-routing agent graph of                                     *)
(* 17_Deploying_Open_Source_Endpoints/app/graphs/simple_agent.py:          *)
(* analyze_question classifies the latest user question by keyword,        *)
(* route_to_tool picks at most one tool node, the tool node appends a      *)
(* system message, generate_response calls the chat model.                 *)
(*                                                                         *)
(* Text is modelled by TLA+ strings; str.lower() and the `in` substring    *)
(* test are computed character by character.  Messages are records         *)
(* [type, content]; the add_messages reducer of AgentState appends (the    *)
(* messages carry no caller-assigned ids, as in main.py).                  *)
(***************************************************************************)
EXTENDS Naturals, Sequences, FiniteSets, TLC

VARIABLES
    pc,          \* node about to run: "idle", a node name, "END" or "raised"
    input,       \* the conversation handed to graph.invoke
    messages,    \* AgentState["messages"]
    tool_choice, \* AgentState["tool_choice"]: <<>> when unset, <<v>> when set
    question,    \* AgentState["question"]:    <<>> when unset, <<v>> when set
    nodes,       \* the nodes that have run in this invocation, in order
    toolCalls,   \* [call, outcome]: calls received by the tools in this invocation
    modelCalls,  \* [call, outcome]: calls received by the chat model in this invocation
    exc,         \* <<>>, or <<e>>: the exception that escaped graph.invoke
    \* 15_A2A_LangGraph/client.py
    a2a_pc,      \* "input" (main waits for a line), a node name, "END", "exited"
    state,       \* the ClientState of the request being handled
    httpx_open,  \* agent.httpx_client has not been closed
    result,      \* main's `result`: <<>>, or <<s>>: the state the last ainvoke returned
    sent,        \* messages handed to client.send_message in this request
    uuids,       \* number of uuid4() values drawn so far
    requests,    \* number of graph.ainvoke calls so far
    a2a_nodes,   \* the nodes that have run in this request, in order
    \* 13_MCP/AIE7-MCP-Session/langgraph_client.py
    mcp_pc,        \* "connected", "ready" (wrappers built) or "failed"
    session_tools, \* the tools the MCP session lists
    tools,         \* the wrappers create_mcp_tools returned
    last_run       \* <<>>, or <<r>>: the last _arun call and what came of it

vars == <<pc, input, messages, tool_choice, question, nodes, toolCalls, modelCalls, exc>>

(***************************************************************************)
(* Bounds                                                                  *)
(***************************************************************************)
\* longest input conversation
MaxMsgs == 2

\* most requests (graph.ainvoke calls) of one A2A command-line session
MaxRequests == 2

\* most tools an MCP session lists
MaxTools == 2

(***************************************************************************)
(* Text: str.lower() and the substring test                                *)
(***************************************************************************)
UpperCase == "ABCDEFGHIJKLMNOPQRSTUVWXYZ"

LowerCase == "abcdefghijklmnopqrstuvwxyz"

\* the lower-case letter of each upper-case letter
LowerOf ==
    [c \in { SubSeq(UpperCase, i, i) : i \in 1..Len(UpperCase) } |->
        LET i == CHOOSE j \in 1..Len(UpperCase) : SubSeq(UpperCase, j, j) = c
        IN  SubSeq(LowerCase, i, i)]

\* c is a one-character string
LowerChar(c) == IF c \in DOMAIN LowerOf THEN LowerOf[c] ELSE c

RECURSIVE Lower(_)
Lower(s) ==
    IF Len(s) = 0 THEN ""
    ELSE LowerChar(SubSeq(s, 1, 1)) \o Lower(SubSeq(s, 2, Len(s)))

\* Python's  sub in s
Contains(s, sub) ==
    \E i \in 1..(Len(s) + 1) :
        /\ i + Len(sub) - 1 <= Len(s)
        /\ SubSeq(s, i, i + Len(sub) - 1) = sub

(***************************************************************************)
(* Keyword lists                                                           *)
(***************************************************************************)
rag_keywords ==
    { "student loan", "financial aid", "pell grant", "fafsa", "tuition",
      "scholarship", "education loan", "federal aid", "college funding",
      "direct loan", "subsidized", "unsubsidized", "plus loan",
      "loan forgiveness", "repayment", "interest rate" }

web_keywords ==
    { "current", "latest", "recent", "today", "news", "update",
      "2024", "2025", "now", "this year" }

arxiv_keywords ==
    { "research", "paper", "study", "academic", "publication",
      "machine learning", "AI", "artificial intelligence", "neural network",
      "algorithm", "computer science", "mathematics" }

_should_use_rag(q) ==
    LET question_lower == Lower(q)
    IN  \E keyword \in rag_keywords : Contains(question_lower, keyword)

_should_use_web_search(q) ==
    LET question_lower == Lower(q)
    IN  \E keyword \in web_keywords : Contains(question_lower, keyword)

_should_use_arxiv(q) ==
    LET question_lower == Lower(q)
    IN  \E keyword \in arxiv_keywords : Contains(question_lower, keyword)

(***************************************************************************)
(* Messages and the AgentState channels                                    *)
(***************************************************************************)
HumanMessage(content) == [type |-> "human", content |-> content]

AIMessage(content) == [type |-> "ai", content |-> content]

SystemMessage(content) == [type |-> "system", content |-> content]

\* the reducer of AgentState.messages: the update is appended
add_messages(left, right) == left \o right

\* state.get("question", ""), for a channel holding <<>> or <<v>>
state_get(channel, default) == IF channel = <<>> THEN default ELSE channel[1]

\* mutant: the scan runs oldest-to-newest and stops at the first HumanMessage
scan_reversed_OldestFirst(msgs, i) ==
    LET humans == { k \in 1..i : msgs[k].type = "human" }
    IN  IF humans = {} THEN <<>>
        ELSE <<msgs[CHOOSE k \in humans : \A j \in humans : k <= j].content>>

\* for msg in reversed(messages): if isinstance(msg, HumanMessage): ...; break
\* <<>> when the loop ends without a HumanMessage, <<msg.content>> otherwise
RECURSIVE scan_reversed(_, _)
scan_reversed(msgs, i) ==
    IF i = 0 THEN <<>>
    ELSE IF msgs[i].type = "human" THEN <<msgs[i].content>>
    ELSE scan_reversed(msgs, i - 1)

last_human_message(msgs) == scan_reversed(msgs, Len(msgs))

(***************************************************************************)
(* Nodes, as functions from the state they read to the update they return  *)
(***************************************************************************)
\* mutant: the recency list is tested before the finance/education list
analyze_question_WebFirst(msgs) ==
    LET lhm == last_human_message(msgs)
    IN  IF lhm = <<>> \/ lhm[1] = ""
        THEN [tool_choice |-> "direct", question |-> ""]
        ELSE LET q == lhm[1]
             IN  IF _should_use_web_search(q) THEN [tool_choice |-> "web_search", question |-> q]
                 ELSE IF _should_use_rag(q) THEN [tool_choice |-> "rag", question |-> q]
                 ELSE IF _should_use_arxiv(q) THEN [tool_choice |-> "arxiv", question |-> q]
                 ELSE [tool_choice |-> "direct", question |-> q]

\* mutant: the research list is tested before the recency list
analyze_question_ArxivFirst(msgs) ==
    LET lhm == last_human_message(msgs)
    IN  IF lhm = <<>> \/ lhm[1] = ""
        THEN [tool_choice |-> "direct", question |-> ""]
        ELSE LET q == lhm[1]
             IN  IF _should_use_rag(q) THEN [tool_choice |-> "rag", question |-> q]
                 ELSE IF _should_use_arxiv(q) THEN [tool_choice |-> "arxiv", question |-> q]
                 ELSE IF _should_use_web_search(q) THEN [tool_choice |-> "web_search", question |-> q]
                 ELSE [tool_choice |-> "direct", question |-> q]

analyze_question(msgs) ==
    LET lhm == last_human_message(msgs)
    IN  IF lhm = <<>> \/ lhm[1] = ""
        THEN [tool_choice |-> "direct", question |-> ""]
        ELSE LET q == lhm[1]
                 tools_to_use ==
                     IF _should_use_rag(q) THEN <<"rag">>
                     ELSE IF _should_use_web_search(q) THEN <<"web_search">>
                     ELSE IF _should_use_arxiv(q) THEN <<"arxiv">>
                     ELSE <<>>
             IN  IF tools_to_use = <<>>
                 THEN [tool_choice |-> "direct", question |-> q]
                 ELSE [tool_choice |-> tools_to_use[1], question |-> q]

\* mutant: the fall-through branch routes to a tool node
route_to_tool_RagDefault(choice) ==
    LET tc == state_get(choice, "direct")
    IN  IF tc = "web_search" THEN "use_web_search"
        ELSE IF tc = "arxiv" THEN "use_arxiv"
        ELSE "use_rag"

route_to_tool(choice) ==
    LET tc == state_get(choice, "direct")
    IN  IF tc = "rag" THEN "use_rag"
        ELSE IF tc = "web_search" THEN "use_web_search"
        ELSE IF tc = "arxiv" THEN "use_arxiv"
        ELSE "generate_response"

\* mutant: the tool is queried with the oldest HumanMessage
tool_question_Oldest(q, msgs) ==
    LET lhm == scan_reversed_OldestFirst(msgs, Len(msgs))
    IN  IF lhm = <<>> THEN "" ELSE lhm[1]

\* the query a tool node hands to its tool: the question channel, or, when
\* that is empty, the latest HumanMessage of the conversation
tool_question(q, msgs) ==
    LET stored == state_get(q, "")
    IN  IF stored # "" THEN stored
        ELSE LET lhm == last_human_message(msgs)
             IN  IF lhm = <<>> THEN "" ELSE lhm[1]

\* A tool outcome o is [raises, value, error]: the tool returns o.value, or
\* raises an exception whose str() is o.error.
\* A node result is [raised, update, calls]: the messages update it returns
\* (or the exception that leaves it) and the calls it made to its collaborator.
\* mutant: the except branch logs the error and returns no message
use_rag_tool_DropsError(q, msgs, o) ==
    LET query == tool_question(q, msgs)
        call  == [tool |-> "rag", query |-> query]
    IN  IF ~o.raises
        THEN [raised |-> <<>>, calls |-> <<call>>,
              update |-> <<SystemMessage("RAG Tool Result: " \o o.value)>>]
        ELSE [raised |-> <<>>, calls |-> <<call>>, update |-> <<>>]

use_rag_tool(q, msgs, o) ==
    LET query == tool_question(q, msgs)
        call  == [tool |-> "rag", query |-> query]
    IN  IF ~o.raises
        THEN [raised |-> <<>>, calls |-> <<call>>,
              update |-> <<SystemMessage("RAG Tool Result: " \o o.value)>>]
        ELSE [raised |-> <<>>, calls |-> <<call>>,
              update |-> <<SystemMessage("RAG tool error: " \o o.error)>>]

\* result.get(key, default) on a search hit whose field is <<>> or <<v>>
dict_get(field, default) == IF field = <<>> THEN default ELSE field[1]

RECURSIVE join_results(_)
join_results(hits) ==
    IF hits = <<>> THEN ""
    ELSE LET line == "- " \o dict_get(hits[1].title, "No title") \o ": "
                          \o dict_get(hits[1].content, "No content")
         IN  IF Len(hits) = 1 THEN line
             ELSE line \o "\n" \o join_results(Tail(hits))

use_web_search_tool(q, msgs, o) ==
    LET query == tool_question(q, msgs)
        call  == [tool |-> "web_search", query |-> query]
    IN  IF ~o.raises
        THEN [raised |-> <<>>, calls |-> <<call>>,
              update |-> <<SystemMessage("Web Search Results: " \o join_results(o.value))>>]
        ELSE [raised |-> <<>>, calls |-> <<call>>,
              update |-> <<SystemMessage("Web search error: " \o o.error)>>]

\* In the except branch the node returns [tool_message], a local that is
\* bound only by the last statement of the try block: whenever the tool
\* raises it is unbound and UnboundLocalError leaves the node.
use_arxiv_tool(q, msgs, o) ==
    LET query == tool_question(q, msgs)
        call  == [tool |-> "arxiv", query |-> query]
        tool_message ==
            IF ~o.raises THEN <<SystemMessage("ArXiv Search Results: " \o o.value)>>
            ELSE <<>>
    IN  IF tool_message # <<>>
        THEN [raised |-> <<>>, calls |-> <<call>>, update |-> tool_message]
        ELSE [raised |-> <<"UnboundLocalError">>, calls |-> <<call>>, update |-> <<>>]

system_prompt ==
    SystemMessage("You are a helpful assistant. If tool results are provided in the conversation, use them to answer the user's question. If no tool results are available, answer based on your knowledge.")

\* mutant: the node returns the list it sent to the model, reply included
generate_response_ReturnsPrompt(msgs, o) ==
    LET model_messages == <<system_prompt>> \o msgs
    IN  IF ~o.raises
        THEN [raised |-> <<>>, calls |-> <<model_messages>>,
              update |-> <<system_prompt, o.value>>]
        ELSE [raised |-> <<o.error>>, calls |-> <<model_messages>>, update |-> <<>>]

\* mutant: the node catches the model error and answers with an apology
generate_response_CatchesError(msgs, o) ==
    LET model_messages == <<system_prompt>> \o msgs
    IN  IF ~o.raises
        THEN [raised |-> <<>>, calls |-> <<model_messages>>, update |-> <<o.value>>]
        ELSE [raised |-> <<>>, calls |-> <<model_messages>>,
              update |-> <<AIMessage("Sorry, something went wrong: " \o o.error)>>]

\* A model outcome o is [raises, value, error]: model.invoke returns the
\* message o.value or raises.  Nothing in the node catches or repeats it.
generate_response(msgs, o) ==
    LET model_messages == <<system_prompt>> \o msgs
    IN  IF ~o.raises
        THEN [raised |-> <<>>, calls |-> <<model_messages>>, update |-> <<o.value>>]
        ELSE [raised |-> <<o.error>>, calls |-> <<model_messages>>, update |-> <<>>]

(***************************************************************************)
(* Inputs and collaborator outcomes                                        *)
(***************************************************************************)
Questions ==
    { "",
      "Hello, how are you?",
      "What type of student loans are available to freshmen?",
      "What is the latest news on AI research?",
      "FAFSA update 2025",
      "Is there a research paper on tuition?",
      "Explain this machine learning algorithm",
      "What is AI?",
      "Do you know him?",
      "Latest student loan research",
      "TODAY in mathematics" }

MessageValues ==
    { HumanMessage(q) : q \in Questions }
        \cup { AIMessage("Glad to help."), SystemMessage("Be brief.") }

Conversations == UNION { [1..n -> MessageValues] : n \in 0..MaxMsgs }

Returns(v) == [raises |-> FALSE, value |-> v, error |-> ""]

Raises(e) == [raises |-> TRUE, value |-> "", error |-> e]

RagOutcomes ==
    { Returns("Direct Subsidized Loans are available to undergraduates."),
      Returns(""),
      Raises("vector store unavailable") }

WebOutcomes ==
    { Returns(<<>>),
      Returns(<<[title |-> <<"Fed holds rates">>, content |-> <<"No change.">>]>>),
      Returns(<<[title |-> <<"Fed holds rates">>, content |-> <<"No change.">>],
                [title |-> <<>>, content |-> <<>>]>>),
      Raises("401 Unauthorized") }

ArxivOutcomes ==
    { Returns("Published: 2017. Title: Attention Is All You Need"),
      Raises("arxiv request timed out") }

ModelOutcomes ==
    { Returns(AIMessage("Here is the answer.")),
      Raises("APIConnectionError") }

(***************************************************************************)
(* The three programs are independent: each specification runs one of them *)
(* and leaves the other two as they are after start-up.                    *)
(***************************************************************************)
a2aVars == <<a2a_pc, state, httpx_open, result, sent, uuids, requests, a2a_nodes>>

mcpVars == <<mcp_pc, session_tools, tools, last_run>>

\* ClientState(user_input=...): every other field at its default
ClientState(user_input) ==
    [messages |-> <<>>, discovered_agents |-> <<>>, current_agent |-> <<>>,
     user_input |-> user_input, response |-> "", task_id |-> <<>>,
     context_id |-> <<>>, is_complete |-> FALSE, error |-> <<>>]

\* build_client_graph() has made the agent, with an open httpx.AsyncClient,
\* and main is about to read the first line
A2AStart ==
    /\ a2a_pc = "input"
    /\ state = ClientState("")
    /\ httpx_open = TRUE
    /\ result = <<>>
    /\ sent = <<>>
    /\ uuids = 0
    /\ requests = 0
    /\ a2a_nodes = <<>>

\* session.initialize() has returned; the server lists `listed`
MCPStart(listed) ==
    /\ mcp_pc = "connected"
    /\ session_tools = listed
    /\ tools = <<>>
    /\ last_run = <<>>

(***************************************************************************)
(* The graph: entry point, conditional edge, tool edges, END               *)
(***************************************************************************)
RouterStart ==
    /\ pc = "idle"
    /\ input = <<>>
    /\ messages = <<>>
    /\ tool_choice = <<>>
    /\ question = <<>>
    /\ nodes = <<>>
    /\ toolCalls = <<>>
    /\ modelCalls = <<>>
    /\ exc = <<>>

Init == RouterStart /\ A2AStart /\ MCPStart(<<>>)

\* graph.invoke({"messages": conv}): only the messages channel is given
Invoke(conv) ==
    /\ pc = "idle"
    /\ input' = conv
    /\ messages' = add_messages(<<>>, conv)
    /\ pc' = "analyze_question"
    /\ UNCHANGED <<tool_choice, question, nodes, toolCalls, modelCalls, exc>>
    /\ UNCHANGED <<a2aVars, mcpVars>>

\* the entry node, followed by the conditional edge route_to_tool
AnalyzeQuestion ==
    /\ pc = "analyze_question"
    /\ LET r == analyze_question(messages)
       IN  /\ tool_choice' = <<r.tool_choice>>
           /\ question' = <<r.question>>
    /\ nodes' = Append(nodes, "analyze_question")
    /\ pc' = route_to_tool(tool_choice')
    /\ UNCHANGED <<input, messages, toolCalls, modelCalls, exc>>
    /\ UNCHANGED <<a2aVars, mcpVars>>

\* what the collaborator saw: each call with the outcome it answered
Logged(calls, o) == [i \in 1..Len(calls) |-> [call |-> calls[i], outcome |-> o]]

\* a node result r applied to the state; `next` is the node's outgoing edge
Apply(node, r, next) ==
    /\ nodes' = Append(nodes, node)
    /\ IF r.raised = <<>>
       THEN /\ messages' = add_messages(messages, r.update)
            /\ pc' = next
            /\ exc' = exc
       ELSE /\ messages' = messages
            /\ pc' = "raised"
            /\ exc' = r.raised
    /\ UNCHANGED <<input, tool_choice, question>>
    /\ UNCHANGED <<a2aVars, mcpVars>>

UseRag ==
    /\ pc = "use_rag"
    /\ \E o \in RagOutcomes :
         LET r == use_rag_tool(question, messages, o)
         IN  /\ Apply("use_rag", r, "generate_response")
             /\ toolCalls' = toolCalls \o Logged(r.calls, o)
    /\ UNCHANGED modelCalls

UseWebSearch ==
    /\ pc = "use_web_search"
    /\ \E o \in WebOutcomes :
         LET r == use_web_search_tool(question, messages, o)
         IN  /\ Apply("use_web_search", r, "generate_response")
             /\ toolCalls' = toolCalls \o Logged(r.calls, o)
    /\ UNCHANGED modelCalls

UseArxiv ==
    /\ pc = "use_arxiv"
    /\ \E o \in ArxivOutcomes :
         LET r == use_arxiv_tool(question, messages, o)
         IN  /\ Apply("use_arxiv", r, "generate_response")
             /\ toolCalls' = toolCalls \o Logged(r.calls, o)
    /\ UNCHANGED modelCalls

GenerateResponse ==
    /\ pc = "generate_response"
    /\ \E o \in ModelOutcomes :
         LET r == generate_response(messages, o)
         IN  /\ Apply("generate_response", r, "END")
             /\ modelCalls' = modelCalls \o Logged(r.calls, o)
    /\ UNCHANGED toolCalls

\* graph.invoke has returned the final state, or raised: the compiled graph
\* has no checkpointer and keeps nothing for the next invocation
Return ==
    /\ pc \in {"END", "raised"}
    /\ pc' = "idle"
    /\ input' = <<>>
    /\ messages' = <<>>
    /\ tool_choice' = <<>>
    /\ question' = <<>>
    /\ nodes' = <<>>
    /\ toolCalls' = <<>>
    /\ modelCalls' = <<>>
    /\ exc' = <<>>
    /\ UNCHANGED <<a2aVars, mcpVars>>

Next ==
    \/ \E conv \in Conversations : Invoke(conv)
    \/ AnalyzeQuestion
    \/ UseRag
    \/ UseWebSearch
    \/ UseArxiv
    \/ GenerateResponse
    \/ Return

Spec == Init /\ [][Next]_vars

(***************************************************************************)
(* Vocabulary of the properties                                            *)
(***************************************************************************)
\* each keyword list with its keywords in lower case
AnyCase ==
    [keywords \in {rag_keywords, web_keywords, arxiv_keywords} |->
        { Lower(k) : k \in keywords }]

\* the question text mentions a keyword of the list, in any letter case
Mentions(q, keywords) ==
    LET text == Lower(q)
    IN  \E k \in AnyCase[keywords] : Contains(text, k)

\* the text of the newest user message of a conversation, "" when it has none
LatestUserText(conv) ==
    LET humans == { i \in 1..Len(conv) : conv[i].type = "human" }
    IN  IF humans = {} THEN ""
        ELSE conv[CHOOSE i \in humans : \A j \in humans : j <= i].content

\* analyze_question has run in the current invocation
Analysed == nodes # <<>>

ToolNodes == {"use_rag", "use_web_search", "use_arxiv"}

\* the messages the invocation has added to the input conversation
Appended == SubSeq(messages, Len(input) + 1, Len(messages))

ToolRaised == toolCalls # <<>> /\ toolCalls[1].outcome.raises

ToolReturned == toolCalls # <<>> /\ ~toolCalls[1].outcome.raises

ModelRaised == modelCalls # <<>> /\ modelCalls[Len(modelCalls)].outcome.raises

ReplyCount == Cardinality({ i \in 1..Len(Appended) : Appended[i].type = "ai" })

(***************************************************************************)
(* C1: if the selected tool raises, no exception leaves the tool node:     *)
(* generate_response still runs and the returned conversation holds        *)
(* exactly one new model reply -- for use_rag, use_web_search, use_arxiv.  *)
(***************************************************************************)
C1_ToolErrorContained ==
    ToolRaised =>
        /\ pc = "raised" => ModelRaised
        /\ pc = "END" => ReplyCount = 1
        /\ pc \in {"END", "raised"} => Len(modelCalls) = 1

(***************************************************************************)
(* C2: a question whose lower-cased text contains a finance/education      *)
(* keyword is routed to retrieval, whatever other keywords it contains.    *)
(***************************************************************************)
C2_RagFirst ==
    (Analysed /\ Mentions(LatestUserText(input), rag_keywords))
        => tool_choice = <<"rag">>

C2_Witness ==
    /\ Analysed
    /\ Mentions(LatestUserText(input), rag_keywords)
    /\ Mentions(LatestUserText(input), web_keywords)
    /\ tool_choice = <<"rag">>
    /\ pc = "use_rag"

(***************************************************************************)
(* C3: a question with a recency keyword and no finance/education keyword  *)
(* is routed to web search, also when it contains research keywords.       *)
(***************************************************************************)
C3_WebSecond ==
    (/\ Analysed
     /\ Mentions(LatestUserText(input), web_keywords)
     /\ ~Mentions(LatestUserText(input), rag_keywords))
        => tool_choice = <<"web_search">>

C3_Witness ==
    /\ Analysed
    /\ LatestUserText(input) = "What is the latest news on AI research?"
    /\ Mentions(LatestUserText(input), arxiv_keywords)
    /\ tool_choice = <<"web_search">>
    /\ pc = "use_web_search"

(***************************************************************************)
(* C4: a question with a research keyword (research, paper, ..., AI, ...)  *)
(* and no finance/education and no recency keyword is routed to the        *)
(* academic search.                                                        *)
(***************************************************************************)
C4_ArxivThird ==
    (/\ Analysed
     /\ Mentions(LatestUserText(input), arxiv_keywords)
     /\ ~Mentions(LatestUserText(input), rag_keywords)
     /\ ~Mentions(LatestUserText(input), web_keywords))
        => tool_choice = <<"arxiv">>

(***************************************************************************)
(* C5: a question matching none of the keyword lists is answered directly: *)
(* tool_choice is "direct", route_to_tool goes to generate_response, no    *)
(* tool node runs and the conversation gains the model reply only.         *)
(***************************************************************************)
C5_DirectWhenNoMatch ==
    (/\ Analysed
     /\ ~Mentions(LatestUserText(input), rag_keywords)
     /\ ~Mentions(LatestUserText(input), web_keywords)
     /\ ~Mentions(LatestUserText(input), arxiv_keywords))
        => /\ tool_choice = <<"direct">>
           /\ toolCalls = <<>>
           /\ \A i \in 1..Len(nodes) : nodes[i] \notin ToolNodes
           /\ nodes = <<"analyze_question">> => pc = "generate_response"
           /\ pc = "END" =>
                /\ nodes = <<"analyze_question", "generate_response">>
                /\ Len(Appended) = 1
                /\ Appended[1].type = "ai"

C5_Witness ==
    /\ pc = "END"
    /\ LatestUserText(input) = "Hello, how are you?"
    /\ tool_choice = <<"direct">>
    /\ Len(Appended) = 1
    /\ toolCalls = <<>>

(***************************************************************************)
(* C6: the returned conversation is the input conversation, unchanged and  *)
(* in order, then zero or one system-role tool message, then exactly one   *)
(* model reply; the instruction message that generate_response prepends    *)
(* for the model call is not part of it.                                   *)
(***************************************************************************)
C6_OnlyExtended ==
    /\ pc # "idle" =>
         /\ Len(messages) >= Len(input)
         /\ SubSeq(messages, 1, Len(input)) = input
    /\ pc = "END" =>
         /\ Len(Appended) \in {1, 2}
         /\ Appended[Len(Appended)].type = "ai"
         /\ Appended[Len(Appended)] = modelCalls[1].outcome.value
         /\ Len(Appended) = 2 => Appended[1].type = "system"
         /\ \A i \in 1..Len(Appended) : Appended[i] # system_prompt
         /\ modelCalls[1].call =
                <<system_prompt>> \o SubSeq(messages, 1, Len(messages) - 1)

C6_Witness ==
    /\ pc = "END"
    /\ Len(input) = 2
    /\ Len(Appended) = 2
    /\ Appended[1].type = "system"
    /\ Appended[2].type = "ai"
    /\ Head(modelCalls[1].call) = system_prompt

(***************************************************************************)
(* C7: in every invocation the nodes run in the order analyze_question,    *)
(* at most one tool node, generate_response, END: one classification, at   *)
(* most one tool call, exactly one model call, no node twice, no tool      *)
(* node after generate_response, and the pass always gets there.           *)
(***************************************************************************)
C7_SinglePass ==
    /\ \A i, j \in 1..Len(nodes) : nodes[i] = nodes[j] => i = j
    /\ Len(toolCalls) <= 1
    /\ Len(modelCalls) <= 1
    /\ pc \in {"END", "raised"} =>
         /\ \/ nodes = <<"analyze_question", "generate_response">>
            \/ \E t \in ToolNodes : nodes = <<"analyze_question", t, "generate_response">>
         /\ Len(modelCalls) = 1

(***************************************************************************)
(* C8: when the selected tool succeeds it is called exactly once, with the *)
(* text of the latest user question, and the conversation gains exactly    *)
(* two messages: a system-role message carrying what the tool returned,    *)
(* then the model reply.                                                   *)
(***************************************************************************)
\* the message text carries what the tool returned
Carries(text, tool, value) ==
    IF tool = "web_search"
    THEN \A i \in 1..Len(value) :
            /\ value[i].title # <<>> => Contains(text, value[i].title[1])
            /\ value[i].content # <<>> => Contains(text, value[i].content[1])
    ELSE Contains(text, value)

C8_ToolResultThenReply ==
    ToolReturned =>
        /\ Len(toolCalls) = 1
        /\ toolCalls[1].call.query = LatestUserText(input)
        /\ tool_choice = <<toolCalls[1].call.tool>>
        /\ Len(Appended) >= 1
        /\ Appended[1].type = "system"
        /\ Carries(Appended[1].content, toolCalls[1].call.tool,
                   toolCalls[1].outcome.value)
        /\ pc = "END" =>
             /\ Len(Appended) = 2
             /\ Appended[2].type = "ai"

C8_Witness ==
    /\ pc = "END"
    /\ ToolReturned
    /\ Len(input) = 2
    /\ LatestUserText(input) = "What type of student loans are available to freshmen?"
    /\ toolCalls[1].call = [tool |-> "rag", query |-> LatestUserText(input)]
    /\ toolCalls[1].outcome.value # ""
    /\ Len(Appended) = 2

(***************************************************************************)
(* C9: analyze_question classifies the newest user message, found by       *)
(* scanning newest-to-oldest past assistant and system messages; the       *)
(* decision depends on that text alone; with no user message it is         *)
(* "direct" with an empty question.                                        *)
(***************************************************************************)
C9_NewestUserMessageOnly ==
    Analysed =>
        /\ question = <<LatestUserText(input)>>
        /\ tool_choice =
             <<analyze_question(<<HumanMessage(LatestUserText(input))>>).tool_choice>>
        /\ (\A i \in 1..Len(input) : input[i].type # "human") =>
             /\ tool_choice = <<"direct">>
             /\ question = <<"">>

C9_Witness ==
    /\ Analysed
    /\ Len(input) = 2
    /\ input[1].type = "human"
    /\ input[2].type = "human"
    /\ input[1].content # input[2].content
    /\ analyze_question(<<input[1]>>).tool_choice # tool_choice[1]
    /\ question = <<input[2].content>>

(***************************************************************************)
(* C10: a failure of the model call in generate_response reaches the       *)
(* caller: the node does not call the model again, does not catch the      *)
(* error, and appends no reply.                                            *)
(***************************************************************************)
C10_ModelErrorPropagates ==
    ModelRaised =>
        /\ pc = "raised"
        /\ exc = <<modelCalls[1].outcome.error>>
        /\ Len(modelCalls) = 1
        /\ ReplyCount = 0
        /\ Len(Appended) = Len(toolCalls)

C10_Witness ==
    /\ ModelRaised
    /\ pc = "raised"
    /\ toolCalls # <<>>
    /\ Len(Appended) = 1
    /\ nodes[Len(nodes)] = "generate_response"

(***************************************************************************)
(* C12: when the retrieval tool or the web-search tool raises, the node    *)
(* appends exactly one system-role message, "RAG tool error: " or          *)
(* "Web search error: " followed by the exception text, and no result      *)
(* message; the conversation gains that message and then the model reply.  *)
(***************************************************************************)
ErrorPrefix(tool) ==
    IF tool = "rag" THEN "RAG tool error: " ELSE "Web search error: "

C12_ErrorMessageThenReply ==
    (ToolRaised /\ toolCalls[1].call.tool \in {"rag", "web_search"}) =>
        /\ Len(Appended) >= 1
        /\ Appended[1] =
             [type |-> "system",
              content |-> ErrorPrefix(toolCalls[1].call.tool)
                              \o toolCalls[1].outcome.error]
        /\ pc = "generate_response" => Len(Appended) = 1
        /\ pc = "END" =>
             /\ Len(Appended) = 2
             /\ Appended[2].type = "ai"

C12_Witness ==
    /\ pc = "END"
    /\ ToolRaised
    /\ toolCalls[1].call.tool = "rag"
    /\ Appended[1].content = "RAG tool error: vector store unavailable"
    /\ Len(Appended) = 2

(***************************************************************************)
(* 15_A2A_LangGraph/client.py: the A2A client.  One A2AClientAgent, with   *)
(* one httpx client, serves every request of main's input loop; each       *)
(* request runs discover_agents, analyze_input, delegate_task,             *)
(* format_response, cleanup.                                               *)
(***************************************************************************)
RECURSIVE LStrip(_)
LStrip(s) ==
    IF Len(s) > 0 /\ SubSeq(s, 1, 1) = " " THEN LStrip(SubSeq(s, 2, Len(s))) ELSE s

RECURSIVE RStrip(_)
RStrip(s) ==
    IF Len(s) > 0 /\ SubSeq(s, Len(s), Len(s)) = " "
    THEN RStrip(SubSeq(s, 1, Len(s) - 1)) ELSE s

\* str.strip()
Strip(s) == RStrip(LStrip(s))

\* lines the user may type
Lines == { "hello", " roll 2d6 ", "", "  ", "quit", "EXIT", "q" }

\* resolver.get_agent_card(): an AgentCard, or an exception
CardOutcomes ==
    { Returns([name |-> "Dice Agent"]), Raises("ConnectError") }

\* client.send_message(...): an object with a content attribute, one without
\* (or None), or an exception
SendOutcomes ==
    { Returns([has_content |-> TRUE, content |-> "You rolled 7"]),
      Returns([has_content |-> TRUE, content |-> ""]),
      Returns([has_content |-> FALSE, content |-> ""]),
      Raises("ReadTimeout") }

discover_agents(st, o) ==
    LET discovered == IF o.raises THEN <<>> ELSE <<o.value>>
    IN  [st EXCEPT !.discovered_agents = discovered,
                   !.current_agent =
                       IF discovered # <<>> THEN <<discovered[1]>> ELSE @]

\* mutant: a missing agent is not reported
analyze_user_input_NoCheck(st) == st

analyze_user_input(st) ==
    IF st.current_agent = <<>>
    THEN [st EXCEPT !.error = <<"No agents available for delegation">>]
    ELSE st

\* the result is [state, sent]: the state returned and the messages handed
\* to client.send_message; n uuid4() values have been drawn before
delegate_to_remote_agent(st, o, n) ==
    IF st.current_agent = <<>> \/ st.error # <<>>
    THEN [state |-> st, sent |-> <<>>]
    ELSE LET ids == [st EXCEPT !.context_id = <<n + 1>>, !.task_id = <<n + 2>>]
             message_params ==
                 [content |-> ids.user_input, context_id |-> ids.context_id[1],
                  task_id |-> ids.task_id[1]]
         IN  IF o.raises
             THEN [state |-> [ids EXCEPT !.error = <<"Delegation failed: " \o o.error>>],
                   sent  |-> <<message_params>>]
             ELSE IF o.value.has_content
             THEN [state |-> [ids EXCEPT !.response = o.value.content,
                                         !.is_complete = TRUE],
                   sent  |-> <<message_params>>]
             ELSE [state |-> [ids EXCEPT !.error =
                                  <<"No response received from remote agent">>],
                   sent  |-> <<message_params>>]

format_response(st) ==
    IF st.error # <<>>
    THEN [st EXCEPT !.response = "Error: " \o st.error[1]]
    ELSE IF st.response # ""
    THEN LET agent_name ==
                 IF st.current_agent # <<>> THEN st.current_agent[1].name ELSE "Unknown"
         IN  [st EXCEPT !.response =
                  "Response from " \o agent_name \o ":\n\n" \o st.response]
    ELSE st

\* main: one turn of the input loop up to graph.ainvoke
ReadLine ==
    /\ a2a_pc = "input"
    /\ \E raw \in Lines :
         LET user_input == Strip(raw)
         IN  IF Lower(user_input) \in {"quit", "exit", "q"}
             THEN /\ a2a_pc' = "exited"
                  /\ UNCHANGED <<state, requests, sent, a2a_nodes>>
             ELSE IF user_input = ""
             THEN UNCHANGED <<a2a_pc, state, requests, sent, a2a_nodes>>
             ELSE /\ requests < MaxRequests
                  /\ state' = ClientState(user_input)
                  /\ requests' = requests + 1
                  /\ sent' = <<>>
                  /\ a2a_nodes' = <<>>
                  /\ a2a_pc' = "discover_agents"
    /\ UNCHANGED <<httpx_open, result, uuids>>
    /\ UNCHANGED <<vars, mcpVars>>

\* a request made on a closed httpx client raises
DiscoverAgents ==
    /\ a2a_pc = "discover_agents"
    /\ \E o \in CardOutcomes :
         /\ httpx_open \/ o.raises
         /\ state' = discover_agents(state, o)
    /\ a2a_nodes' = Append(a2a_nodes, "discover_agents")
    /\ a2a_pc' = "analyze_input"
    /\ UNCHANGED <<httpx_open, result, sent, uuids, requests>>
    /\ UNCHANGED <<vars, mcpVars>>

AnalyzeInput ==
    /\ a2a_pc = "analyze_input"
    /\ state' = analyze_user_input(state)
    /\ a2a_nodes' = Append(a2a_nodes, "analyze_input")
    /\ a2a_pc' = "delegate_task"
    /\ UNCHANGED <<httpx_open, result, sent, uuids, requests>>
    /\ UNCHANGED <<vars, mcpVars>>

DelegateTask ==
    /\ a2a_pc = "delegate_task"
    /\ \E o \in SendOutcomes :
         LET r == delegate_to_remote_agent(state, o, uuids)
         IN  /\ httpx_open \/ o.raises
             /\ state' = r.state
             /\ sent' = sent \o r.sent
             /\ uuids' = IF r.sent = <<>> THEN uuids ELSE uuids + 2
    /\ a2a_nodes' = Append(a2a_nodes, "delegate_task")
    /\ a2a_pc' = "format_response"
    /\ UNCHANGED <<httpx_open, result, requests>>
    /\ UNCHANGED <<vars, mcpVars>>

FormatResponse ==
    /\ a2a_pc = "format_response"
    /\ state' = format_response(state)
    /\ a2a_nodes' = Append(a2a_nodes, "format_response")
    /\ a2a_pc' = "cleanup"
    /\ UNCHANGED <<httpx_open, result, sent, uuids, requests>>
    /\ UNCHANGED <<vars, mcpVars>>

\* await self.httpx_client.aclose(): the agent's only client is closed
Cleanup ==
    /\ a2a_pc = "cleanup"
    /\ httpx_open' = FALSE
    /\ a2a_nodes' = Append(a2a_nodes, "cleanup")
    /\ a2a_pc' = "END"
    /\ UNCHANGED <<state, result, sent, uuids, requests>>
    /\ UNCHANGED <<vars, mcpVars>>

\* result = await graph.ainvoke(initial_state); the response is printed and
\* the loop goes back to input()
ShowResult ==
    /\ a2a_pc = "END"
    /\ result' = <<state>>
    /\ a2a_pc' = "input"
    /\ UNCHANGED <<state, httpx_open, sent, uuids, requests, a2a_nodes>>
    /\ UNCHANGED <<vars, mcpVars>>

InitA2A == RouterStart /\ A2AStart /\ MCPStart(<<>>)

NextA2A ==
    \/ ReadLine
    \/ DiscoverAgents
    \/ AnalyzeInput
    \/ DelegateTask
    \/ FormatResponse
    \/ Cleanup
    \/ ShowResult

SpecA2A == InitA2A /\ [][NextA2A]_<<vars, a2aVars, mcpVars>>

(***************************************************************************)
(* C11: the A2A client keeps conversation state across the inputs of one   *)
(* session: what one request built (messages, context_id, discovered       *)
(* agent) is carried into the handling of the next input.                  *)
(***************************************************************************)
C11_StateCarriedOver ==
    (a2a_pc = "discover_agents" /\ result # <<>>) =>
        /\ state.messages = result[1].messages
        /\ state.context_id = result[1].context_id
        /\ state.current_agent = result[1].current_agent
        /\ state.discovered_agents = result[1].discovered_agents

(***************************************************************************)
(* C13: the agent's HTTP client is open whenever discover_agents or        *)
(* delegate_to_remote_agent runs, in every request of a session: cleanup   *)
(* of one request never leaves a later request with a closed client.       *)
(***************************************************************************)
C13_ClientOpenWhenUsed ==
    a2a_pc \in {"discover_agents", "delegate_task"} => httpx_open

(***************************************************************************)
(* C14: when discovery finds no agent, nothing is sent to a remote agent,  *)
(* task_id and context_id stay unset, is_complete stays false, the final   *)
(* response is "Error: No agents available for delegation", and the run    *)
(* still goes through format_response and cleanup to END; at END           *)
(* is_complete implies that error is unset.                                *)
(***************************************************************************)
A2ANodeOrder ==
    <<"discover_agents", "analyze_input", "delegate_task", "format_response", "cleanup">>

C14_NoAgentNoDelegation ==
    /\ (a2a_nodes # <<>> /\ state.discovered_agents = <<>>) =>
         /\ sent = <<>>
         /\ state.task_id = <<>>
         /\ state.context_id = <<>>
         /\ ~state.is_complete
         /\ a2a_nodes = SubSeq(A2ANodeOrder, 1, Len(a2a_nodes))
         /\ Len(a2a_nodes) >= 4 =>
              state.response = "Error: No agents available for delegation"
         /\ a2a_pc = "END" => a2a_nodes = A2ANodeOrder
    /\ (a2a_pc = "END" /\ state.is_complete) => state.error = <<>>

C14_Witness ==
    /\ a2a_pc = "END"
    /\ requests = 1
    /\ state.discovered_agents = <<>>
    /\ state.response = "Error: No agents available for delegation"
    /\ a2a_nodes = A2ANodeOrder
    /\ sent = <<>>

(***************************************************************************)
(* 13_MCP/AIE7-MCP-Session/langgraph_client.py: create_mcp_tools wraps     *)
(* the tools an MCP session lists; MCPToolWrapper._arun calls a tool       *)
(* through the session and turns every outcome into a string.              *)
(***************************************************************************)
\* what a server may list: a tool has a name and an optional description
ToolDecls ==
    { [name |-> "bible_search",
       description |-> <<"Fetch the content of the specified Bible verse reference">>],
      [name |-> "roll_dice", description |-> <<"Roll the dice with the given notation">>],
      [name |-> "echo", description |-> <<>>] }

ToolListings == UNION { [1..n -> ToolDecls] : n \in 0..MaxTools }

\* session.list_tools(): the listing, or an exception
ListOutcomes(listed) == { Returns(listed), Raises("McpError: connection closed") }

\* session.call_tool(name, kwargs): a result whose content is a list of text
\* items (the servers' tools return str), or an exception
CallOutcomes ==
    { Returns(<<>>),
      Returns(<<[text |-> "For God so loved the world"]>>),
      Returns(<<[text |-> "3"], [text |-> "5"]>>),
      Raises("Unknown tool") }

ToolArguments == { [query |-> "John 3:16"], [notation |-> "2d6"] }

\* MCPToolWrapper.__init__
MCPToolWrapper(tool_name, tool_description) ==
    [name |-> tool_name, description |-> tool_description, _tool_name |-> tool_name]

\* the for loop of create_mcp_tools over tools_result.tools, from item i on
RECURSIVE wrap_from(_, _, _)
wrap_from(listed, i, acc) ==
    IF i > Len(listed) THEN acc
    ELSE LET tool == listed[i]
             mcp_tool ==
                 MCPToolWrapper(tool.name,
                     IF tool.description # <<>> /\ tool.description[1] # ""
                     THEN tool.description[1]
                     ELSE "Tool: " \o tool.name)
         IN  wrap_from(listed, i + 1, Append(acc, mcp_tool))

\* the result is [raised, value]
create_mcp_tools(o) ==
    IF o.raises THEN [raised |-> <<o.error>>, value |-> <<>>]
    ELSE [raised |-> <<>>, value |-> wrap_from(o.value, 1, <<>>)]

\* mutant: the call is not guarded by try/except
_arun_NoCatch(wrapper, o) ==
    IF o.raises THEN [raised |-> <<o.error>>, value |-> ""]
    ELSE IF Len(o.value) > 0 THEN [raised |-> <<>>, value |-> o.value[1].text]
    ELSE [raised |-> <<>>, value |-> "No content returned"]

\* the result is [raised, value]
_arun(wrapper, o) ==
    IF ~o.raises
    THEN IF Len(o.value) > 0
         THEN [raised |-> <<>>, value |-> o.value[1].text]
         ELSE [raised |-> <<>>, value |-> "No content returned"]
    ELSE [raised |-> <<>>,
          value |-> "Error calling tool " \o wrapper._tool_name \o ": " \o o.error]

CreateMcpTools ==
    /\ mcp_pc = "connected"
    /\ \E o \in ListOutcomes(session_tools) :
         LET r == create_mcp_tools(o)
         IN  /\ tools' = r.value
             /\ mcp_pc' = IF r.raised = <<>> THEN "ready" ELSE "failed"
    /\ UNCHANGED <<session_tools, last_run>>
    /\ UNCHANGED <<vars, a2aVars>>

\* the agent runs one of the wrappers
ARun ==
    /\ mcp_pc = "ready"
    /\ \E i \in 1..Len(tools), kwargs \in ToolArguments, o \in CallOutcomes :
         LET r == _arun(tools[i], o)
         IN  last_run' =
                 <<[wrapper |-> tools[i],
                    call |-> [name |-> tools[i]._tool_name, arguments |-> kwargs],
                    outcome |-> o, raised |-> r.raised, returned |-> r.value]>>
    /\ UNCHANGED <<mcp_pc, session_tools, tools>>
    /\ UNCHANGED <<vars, a2aVars>>

InitMCP ==
    /\ RouterStart
    /\ A2AStart
    /\ \E listed \in ToolListings : MCPStart(listed)

NextMCP ==
    \/ CreateMcpTools
    \/ ARun

SpecMCP == InitMCP /\ [][NextMCP]_<<vars, a2aVars, mcpVars>>

(***************************************************************************)
(* C15: _arun never raises: it returns the text of the first content item  *)
(* when the session returns content, "No content returned" when the        *)
(* content is empty, "Error calling tool <name>: <error>" when the call    *)
(* raises; create_mcp_tools returns one wrapper per listed tool, in the    *)
(* listed order and with the same names.                                   *)
(***************************************************************************)
C15_ARunTotalWrappersFaithful ==
    /\ last_run # <<>> =>
         LET r == last_run[1]
         IN  /\ r.raised = <<>>
             /\ (~r.outcome.raises /\ r.outcome.value # <<>>) =>
                  r.returned = Head(r.outcome.value).text
             /\ (~r.outcome.raises /\ r.outcome.value = <<>>) =>
                  r.returned = "No content returned"
             /\ r.outcome.raises =>
                  r.returned =
                      "Error calling tool " \o r.wrapper.name \o ": " \o r.outcome.error
             /\ \E i \in 1..Len(session_tools) :
                  session_tools[i].name = r.call.name
    /\ mcp_pc = "ready" =>
         /\ Len(tools) = Len(session_tools)
         /\ \A i \in 1..Len(tools) : tools[i].name = session_tools[i].name

C15_Witness ==
    /\ mcp_pc = "ready"
    /\ Len(tools) = 2
    /\ tools[1].name # tools[2].name
    /\ last_run # <<>>
    /\ last_run[1].wrapper = tools[2]
    /\ last_run[1].outcome.raises
    /\ last_run[1].returned = "Error calling tool " \o tools[2].name \o ": Unknown tool"

====
